---- MODULE Spec2Model ----
(***************************************************************************)
(* Model of verify_fix.py: the module-level statements of the script (the  *)
(* two imports, the definition of run, the __main__ guard and its print)   *)
(* and the coroutine run() with every awaited call into the browser        *)
(* automation library split into its issue and its completion.             *)
(*                                                                         *)
(* The module is either executed as the main program (__name__ is          *)
(* "__main__") or imported by another program (__name__ is "verify_fix"),  *)
(* which may then invoke run().  Both imports of lines 1-2 are taken to    *)
(* resolve: the model starts in an interpreter where the dependency is     *)
(* installed.                                                              *)
(***************************************************************************)
EXTENDS Integers, Sequences, FiniteSets, TLC

VARIABLES
    argv,       \* command-line arguments the process was started with
    environ,    \* names of the environment variables that are set
    files,      \* paths present in the file system
    name,       \* __name__ of the module
    mpc,        \* next module-level statement: "L1","L2","L4","L34","L39","end"
    defined,    \* names bound in the module namespace
    trace,      \* source lines of the module-level statements executed so far
    stdout,     \* lines printed so far
    rpc,        \* position of the coroutine run()
    inflight,   \* library calls issued and not yet completed
    calls,      \* library calls issued by the current invocation of run()
    exc,        \* exception raised in the current invocation, "none" if none
    runs,       \* invocations of run() so far
    mark,       \* Len(stdout) when the current invocation began
    browser,    \* local variable browser of run(): a browser id, 0 if unbound
    page,       \* local variable page of run(): a page id, 0 if unbound
    driver,     \* the library's driver: "none", "running", "stopped"
    browsers,   \* browser objects ever created: [id, open]
    pages,      \* page objects ever created
    nextId      \* objects created so far

envv == <<argv, environ, files>>
modv == <<name, mpc, defined, trace>>
runv == <<rpc, inflight, calls, exc, runs, mark, browser, page>>
objv == <<driver, browsers, pages, nextId>>
vars == <<argv, environ, files, name, mpc, defined, trace, stdout, rpc, inflight,
          calls, exc, runs, mark, browser, page, driver, browsers, pages, nextId>>

----------------------------------------------------------------------------
(* Bounds and inputs *)

MaxRuns == 2

Argvs == { <<"verify_fix.py">>, <<"verify_fix.py", "--headed">> }
Environs == { {}, {"CI"} }
FileSystems == { {}, {"dist/index.html"} }
Names == { "__main__", "verify_fix" }

----------------------------------------------------------------------------
(* Program constants *)

ViewportWidth == 1280
ViewportHeight == 800

SkipMsg == "Skipping runtime verification due to environment constraints. Proceeding with static verification."
NavMsg == "Navigating to app..."

BlankUrl == "about:blank"

Panel(i, x) ==
    [id |-> i, layout |-> [x |-> x, y |-> 0, width |-> 300, height |-> 300],
     status |-> "completed", imageUrl |-> "https://via.placeholder.com/600x600"]

Autosave ==
    [storyboard |-> [title |-> "Test Story",
                     panels |-> << Panel(1, 0), Panel(2, 324) >>]]

\* JSON.stringify: the stored value is a string that encodes the object
JSONStringify(obj) == [json |-> obj]

\* The init script, as the localStorage.setItem calls it makes, in order
MockScript ==
    << [key |-> "gemini_api_key", value |-> "test_key"],
       [key |-> "mangaGen_autosave", value |-> JSONStringify(Autosave)] >>

----------------------------------------------------------------------------
(* Helpers *)

IsPrefix(s, t) == Len(s) <= Len(t) /\ SubSeq(t, 1, Len(s)) = s

Count(s, x) == Cardinality({ i \in 1..Len(s) : s[i] = x })

Ops(cs) == [ i \in 1..Len(cs) |-> cs[i].op ]

RunOutput == SubSeq(stdout, mark + 1, Len(stdout))

OpenBrowsers == { b \in browsers : b.open }
OpenPages == { pg \in pages : pg.open }

----------------------------------------------------------------------------
(* The library's page object *)

\* localStorage.setItem(key, value)
SetItem(storage, item) ==
    [ k \in DOMAIN storage \cup {item.key} |->
        IF k = item.key THEN item.value ELSE storage[k] ]

RECURSIVE RunScript(_, _)
RunScript(storage, script) ==
    IF script = <<>> THEN storage
    ELSE RunScript(SetItem(storage, Head(script)), Tail(script))

RECURSIVE RunScripts(_, _)
RunScripts(storage, scripts) ==
    IF scripts = <<>> THEN storage
    ELSE RunScripts(RunScript(storage, Head(scripts)), Tail(scripts))

\* browser.new_page(): a page on the initial blank document
NewPage(id, b) ==
    [id |-> id, browser |-> b, open |-> TRUE, url |-> BlankUrl,
     viewport |-> <<1280, 720>>, initScripts |-> <<>>, storage |-> [k \in {} |-> ""],
     documents |-> 1, evaluations |-> 0]

SetViewportSize(pg, w, h) == [pg EXCEPT !.viewport = <<w, h>>]

\* page.evaluate(script): the script runs in the current document
Evaluate(pg, script) ==
    [pg EXCEPT !.storage = RunScript(pg.storage, script),
               !.evaluations = pg.evaluations + 1]

\* page.goto(url): a new document, in which every registered init script runs
Goto(pg, url) ==
    [pg EXCEPT !.url = url,
               !.documents = pg.documents + 1,
               !.storage = RunScripts(pg.storage, pg.initScripts),
               !.evaluations = pg.evaluations + Len(pg.initScripts)]

\* Faulty variant of AddInitScript: the script also runs in the current document
AddInitScript_Evaluates(pg, script) ==
    Evaluate([pg EXCEPT !.initScripts = Append(pg.initScripts, script)], script)

\* page.add_init_script(script): registered for the documents created later
AddInitScript(pg, script) ==
    [pg EXCEPT !.initScripts = Append(pg.initScripts, script)]

\* Closing a browser or a page keeps the object and marks it closed
Close(obj) == [obj EXCEPT !.open = FALSE]

----------------------------------------------------------------------------
(* Initial state: the interpreter is about to execute line 1 *)

Init ==
    /\ argv \in Argvs
    /\ environ \in Environs
    /\ files \in FileSystems
    /\ name \in Names
    /\ mpc = "L1"
    /\ defined = {}
    /\ trace = <<>>
    /\ stdout = <<>>
    /\ rpc = "idle"
    /\ inflight = {}
    /\ calls = <<>>
    /\ exc = "none"
    /\ runs = 0
    /\ mark = 0
    /\ browser = 0
    /\ page = 0
    /\ driver = "none"
    /\ browsers = {}
    /\ pages = {}
    /\ nextId = 0

----------------------------------------------------------------------------
(* Module-level statements *)

\* line 1: import asyncio
ImportAsyncio ==
    /\ mpc = "L1"
    /\ mpc' = "L2"
    /\ defined' = defined \cup {"asyncio"}
    /\ trace' = Append(trace, 1)
    /\ UNCHANGED <<envv, name, stdout, runv, objv>>

\* line 2: from playwright.async_api import async_playwright
ImportPlaywright ==
    /\ mpc = "L2"
    /\ mpc' = "L4"
    /\ defined' = defined \cup {"async_playwright"}
    /\ trace' = Append(trace, 2)
    /\ UNCHANGED <<envv, name, stdout, runv, objv>>

\* line 4: async def run() binds the name; the body is not executed
DefRun ==
    /\ mpc = "L4"
    /\ mpc' = "L34"
    /\ defined' = defined \cup {"run"}
    /\ trace' = Append(trace, 4)
    /\ UNCHANGED <<envv, name, stdout, runv, objv>>

\* line 34: if __name__ == "__main__":
MainGuard ==
    /\ mpc = "L34"
    /\ mpc' = IF name = "__main__" THEN "L39" ELSE "end"
    /\ trace' = Append(trace, 34)
    /\ UNCHANGED <<envv, name, defined, stdout, runv, objv>>

\* Faulty variant of PrintSkip: the branch first runs asyncio.run(run())
PrintSkip_AfterRun ==
    /\ mpc = "L39"
    /\ IF runs = 0
       THEN /\ rpc' = "enter"
            /\ runs' = 1
            /\ UNCHANGED <<mpc, trace, stdout>>
       ELSE /\ rpc \in {"returned", "raised"}
            /\ stdout' = Append(stdout, SkipMsg)
            /\ mpc' = "end"
            /\ trace' = Append(trace, 39)
            /\ UNCHANGED <<rpc, runs>>
    /\ UNCHANGED <<envv, name, defined, inflight, calls, exc, mark, browser, page, objv>>

\* Faulty variant of PrintSkip: the branch also writes a log file
PrintSkip_WritesLog ==
    /\ mpc = "L39"
    /\ mpc' = "end"
    /\ stdout' = Append(stdout, SkipMsg)
    /\ files' = files \cup {"verify_fix.log"}
    /\ trace' = Append(trace, 39)
    /\ UNCHANGED <<argv, environ, name, defined, runv, objv>>

\* line 39: the only statement of the __main__ branch
PrintSkip ==
    /\ mpc = "L39"
    /\ mpc' = "end"
    /\ stdout' = Append(stdout, SkipMsg)
    /\ trace' = Append(trace, 39)
    /\ UNCHANGED <<envv, name, defined, runv, objv>>

ModuleStep ==
    \/ ImportAsyncio
    \/ ImportPlaywright
    \/ DefRun
    \/ MainGuard
    \/ PrintSkip

----------------------------------------------------------------------------
(* run(), lines 4-32 *)

\* A program that imported the module calls run() and awaits it.  Nothing in
\* the module itself calls it: as the main program the interpreter exits
\* after line 39.
InvokeRun ==
    /\ name # "__main__"
    /\ mpc = "end"
    /\ "run" \in defined
    /\ rpc \in {"idle", "returned", "raised"}
    /\ runs < MaxRuns
    /\ runs' = runs + 1
    /\ rpc' = "enter"
    /\ calls' = <<>>
    /\ exc' = "none"
    /\ mark' = Len(stdout)
    /\ browser' = 0
    /\ page' = 0
    /\ UNCHANGED <<envv, modv, stdout, inflight, objv>>

\* line 5: async with async_playwright() as p -- __aenter__ is awaited
CallEnter ==
    /\ rpc = "enter"
    /\ "start" \notin inflight
    /\ inflight' = inflight \cup {"start"}
    /\ UNCHANGED <<envv, modv, stdout, rpc, calls, exc, runs, mark, browser, page, objv>>

RetEnter ==
    /\ "start" \in inflight
    /\ inflight' = inflight \ {"start"}
    /\ driver' = "running"
    /\ rpc' = "launch"
    /\ UNCHANGED <<envv, modv, stdout, calls, exc, runs, mark, browser, page,
                   browsers, pages, nextId>>

\* Faulty variant of CallLaunch: the await is missing
CallLaunch_NotAwaited ==
    /\ rpc = "launch"
    /\ "launch" \notin inflight
    /\ inflight' = inflight \cup {"launch"}
    /\ calls' = Append(calls, [op |-> "launch", kwargs |-> [headless |-> TRUE]])
    /\ rpc' = "new_page"
    /\ UNCHANGED <<envv, modv, stdout, exc, runs, mark, browser, page, objv>>

\* line 6: await p.chromium.launch(headless=True)
CallLaunch ==
    /\ rpc = "launch"
    /\ "launch" \notin inflight
    /\ inflight' = inflight \cup {"launch"}
    /\ calls' = Append(calls, [op |-> "launch", kwargs |-> [headless |-> TRUE]])
    /\ UNCHANGED <<envv, modv, stdout, rpc, exc, runs, mark, browser, page, objv>>

RetLaunch ==
    /\ "launch" \in inflight
    /\ inflight' = inflight \ {"launch"}
    /\ nextId' = nextId + 1
    /\ browsers' = browsers \cup {[id |-> nextId + 1, open |-> TRUE]}
    /\ browser' = nextId + 1
    /\ rpc' = "new_page"
    /\ UNCHANGED <<envv, modv, stdout, calls, exc, runs, mark, page, driver, pages>>

\* line 7: await browser.new_page()
CallNewPage ==
    /\ rpc = "new_page"
    /\ "new_page" \notin inflight
    /\ inflight' = inflight \cup {"new_page"}
    /\ calls' = Append(calls, [op |-> "new_page", kwargs |-> [k \in {} |-> ""]])
    /\ UNCHANGED <<envv, modv, stdout, rpc, exc, runs, mark, browser, page, objv>>

RetNewPage ==
    /\ "new_page" \in inflight
    /\ inflight' = inflight \ {"new_page"}
    /\ nextId' = nextId + 1
    /\ pages' = pages \cup {NewPage(nextId + 1, browser)}
    /\ page' = nextId + 1
    /\ rpc' = "set_viewport_size"
    /\ UNCHANGED <<envv, modv, stdout, calls, exc, runs, mark, browser, driver, browsers>>

\* line 10: await page.set_viewport_size({"width": 1280, "height": 800})
CallSetViewport ==
    /\ rpc = "set_viewport_size"
    /\ "set_viewport_size" \notin inflight
    /\ inflight' = inflight \cup {"set_viewport_size"}
    /\ calls' = Append(calls, [op |-> "set_viewport_size",
                               kwargs |-> [viewport_size |->
                                   [width |-> ViewportWidth, height |-> ViewportHeight]]])
    /\ UNCHANGED <<envv, modv, stdout, rpc, exc, runs, mark, browser, page, objv>>

RetSetViewport ==
    /\ "set_viewport_size" \in inflight
    /\ inflight' = inflight \ {"set_viewport_size"}
    /\ pages' = { IF pg.id = page
                  THEN SetViewportSize(pg, ViewportWidth, ViewportHeight)
                  ELSE pg : pg \in pages }
    /\ rpc' = "add_init_script"
    /\ UNCHANGED <<envv, modv, stdout, calls, exc, runs, mark, browser, page,
                   driver, browsers, nextId>>

\* lines 13-24: await page.add_init_script("""...""")
CallAddInitScript ==
    /\ rpc = "add_init_script"
    /\ "add_init_script" \notin inflight
    /\ inflight' = inflight \cup {"add_init_script"}
    /\ calls' = Append(calls, [op |-> "add_init_script",
                               kwargs |-> [script |-> MockScript]])
    /\ UNCHANGED <<envv, modv, stdout, rpc, exc, runs, mark, browser, page, objv>>

RetAddInitScript ==
    /\ "add_init_script" \in inflight
    /\ inflight' = inflight \ {"add_init_script"}
    /\ pages' = { IF pg.id = page THEN AddInitScript(pg, MockScript) ELSE pg
                  : pg \in pages }
    /\ rpc' = "print"
    /\ UNCHANGED <<envv, modv, stdout, calls, exc, runs, mark, browser, page,
                   driver, browsers, nextId>>

\* Faulty variant of Raise: set-up failures of the page are caught and skipped
Raise_Continue ==
    \E op \in inflight :
        /\ inflight' = inflight \ {op}
        /\ exc' = "Error"
        /\ rpc' = CASE op = "start" -> "raised"
                    [] op = "launch" -> "unwind"
                    [] op = "new_page" -> "unwind"
                    [] op = "set_viewport_size" -> "add_init_script"
                    [] OTHER -> "print"
        /\ UNCHANGED <<envv, modv, stdout, calls, runs, mark, browser, page, objv>>

\* An awaited call raises.  run() has no try/except: the exception leaves
\* the body of the async with (or run() itself when __aenter__ raised).
Raise ==
    \E op \in inflight :
        /\ inflight' = inflight \ {op}
        /\ exc' = "Error"
        /\ rpc' = IF op = "start" THEN "raised" ELSE "unwind"
        /\ UNCHANGED <<envv, modv, stdout, calls, runs, mark, browser, page, objv>>

\* Faulty variant of PrintNavigating: the page is navigated to the app
PrintNavigating_Goto ==
    /\ rpc = "print"
    /\ stdout' = Append(stdout, NavMsg)
    /\ calls' = Append(calls, [op |-> "goto", kwargs |-> [url |-> "http://localhost:4173"]])
    /\ pages' = { IF pg.id = page THEN Goto(pg, "http://localhost:4173") ELSE pg
                  : pg \in pages }
    /\ rpc' = "exit"
    /\ UNCHANGED <<envv, modv, inflight, exc, runs, mark, browser, page,
                   driver, browsers, nextId>>

\* Faulty variant of PrintNavigating: waits for a server that never answers
PrintNavigating_Waits ==
    /\ rpc = "print"
    /\ IF Len(RunOutput) = 0
       THEN stdout' = Append(stdout, NavMsg)
       ELSE UNCHANGED stdout
    /\ UNCHANGED <<envv, modv, runv, objv>>

\* lines 26-32: print("Navigating to app..."), comments, pass
PrintNavigating ==
    /\ rpc = "print"
    /\ stdout' = Append(stdout, NavMsg)
    /\ rpc' = "exit"
    /\ UNCHANGED <<envv, modv, inflight, calls, exc, runs, mark, browser, page, objv>>

\* Faulty variant of ExitCM: the driver is started without a scoped block
ExitCM_Leaks ==
    /\ rpc \in {"exit", "unwind"}
    /\ rpc' = IF exc = "none" THEN "returned" ELSE "raised"
    /\ UNCHANGED <<envv, modv, stdout, inflight, calls, exc, runs, mark, browser,
                   page, objv>>

\* end of the async with block (normal or by exception): __aexit__ stops the
\* driver, which closes every browser it launched and their pages
ExitCM ==
    /\ rpc \in {"exit", "unwind"}
    /\ driver' = "stopped"
    /\ browsers' = { Close(b) : b \in browsers }
    /\ pages' = { Close(pg) : pg \in pages }
    /\ rpc' = IF exc = "none" THEN "returned" ELSE "raised"
    /\ UNCHANGED <<envv, modv, stdout, inflight, calls, exc, runs, mark, browser,
                   page, nextId>>

RunStep ==
    \/ CallEnter
    \/ RetEnter
    \/ CallLaunch
    \/ RetLaunch
    \/ CallNewPage
    \/ RetNewPage
    \/ CallSetViewport
    \/ RetSetViewport
    \/ CallAddInitScript
    \/ RetAddInitScript
    \/ PrintNavigating
    \/ ExitCM

Next ==
    \/ ModuleStep
    \/ InvokeRun
    \/ RunStep
    \/ Raise

Spec == Init /\ [][Next]_vars

\* The interpreter executes the module's statements one after the other, and
\* the event loop resumes run() whenever the call it awaits has completed.
\* Raise is left without fairness: a call need not fail.
FairSpec == Spec /\ WF_vars(ModuleStep) /\ WF_vars(RunStep)

----------------------------------------------------------------------------
(* Properties *)

\* The order in which run() issues its library calls
StepOrder == <<"launch", "new_page", "set_viewport_size", "add_init_script">>

MainRun == name = "__main__"

\* C1: executed as the main program the script never invokes run(): no driver
\* is started, no browser is launched, no page is created, "Navigating to
\* app..." is never printed, the output is at all times a prefix of the one
\* skip line, and the program reaches its end with exactly that line printed.
C1_MainNeverInvokesRun ==
    /\ [](MainRun =>
            /\ rpc = "idle" /\ runs = 0 /\ calls = <<>> /\ inflight = {}
            /\ driver = "none" /\ browsers = {} /\ pages = {}
            /\ Count(stdout, NavMsg) = 0
            /\ IsPrefix(stdout, <<SkipMsg>>)
            /\ (mpc = "end" => stdout = <<SkipMsg>>))
    /\ (MainRun ~> (mpc = "end" /\ stdout = <<SkipMsg>>))

C1_Witness ==
    MainRun /\ mpc = "end" /\ stdout = <<SkipMsg>> /\ rpc = "idle"

\* C2 as stated: when the script has printed the skip message, a browser has
\* been launched and the init script has been injected before.
C2_SessionPrecedesSkip ==
    (MainRun /\ Count(stdout, SkipMsg) > 0) =>
        (browsers # {} /\ \E pg \in pages : pg.initScripts # <<>>)

\* C2 amended: when the script has printed the skip message, no browser
\* session has been initialised and no init script injected.
C2_SkipWithoutSession ==
    (MainRun /\ Count(stdout, SkipMsg) > 0) =>
        /\ driver = "none"
        /\ browsers = {}
        /\ \A pg \in pages : pg.initScripts = <<>>
        /\ \A i \in 1..Len(calls) : calls[i].op \notin {"launch", "add_init_script"}

C2_Witness ==
    MainRun /\ Count(stdout, SkipMsg) = 1 /\ browsers = {} /\ "run" \in defined

\* C3: when run() has returned or raised, no browser and no page is open and
\* the driver is not running, and run() has called no close().
C3_ReleasedOnExit ==
    rpc \in {"returned", "raised"} =>
        /\ OpenBrowsers = {}
        /\ OpenPages = {}
        /\ driver # "running"
        /\ \A i \in 1..Len(calls) : calls[i].op # "close"

C3_Witness ==
    /\ rpc = "raised" /\ runs = 1 /\ Len(calls) = 3
    /\ pages # {} /\ OpenPages = {} /\ browsers # {} /\ OpenBrowsers = {}

\* C4: no page ever leaves its initial blank document, and run() issues no
\* call other than its four set-up calls (no navigation, no assertion).
C4_NoNavigation ==
    /\ \A pg \in pages : pg.url = BlankUrl /\ pg.documents = 1
    /\ \A i \in 1..Len(calls) :
          calls[i].op \in {StepOrder[j] : j \in 1..Len(StepOrder)}

C4_Witness ==
    /\ Count(RunOutput, NavMsg) = 1
    /\ \E pg \in OpenPages : pg.url = BlankUrl /\ pg.id = page

\* C5: once a step of run() has failed, run() is unwinding or has raised:
\* no later step is executed, "Navigating to app..." is not printed by this
\* invocation, no call is issued again, and the exception is never cleared.
C5_FailurePropagates ==
    /\ [](exc # "none" =>
            /\ rpc \in {"unwind", "raised"}
            /\ inflight = {}
            /\ Count(RunOutput, NavMsg) = 0)
    /\ [][(exc # "none" /\ runs' = runs) =>
            /\ calls' = calls
            /\ stdout' = stdout
            /\ exc' = exc
            /\ rpc' = "raised"]_vars

C5_Witness ==
    /\ rpc = "raised" /\ exc = "Error"
    /\ Ops(calls) = <<"launch", "new_page">>
    /\ Count(RunOutput, NavMsg) = 0

\* C6: executed as the main program the script changes neither the
\* arguments, the environment variables nor the file system, and its output
\* and the statements it executes are the same whatever they are.
C6_EnvironmentUntouched ==
    /\ [][MainRun => (argv' = argv /\ environ' = environ /\ files' = files)]_vars
    /\ []((MainRun /\ mpc = "end") =>
            (stdout = <<SkipMsg>> /\ trace = <<1, 2, 4, 34, 39>>))

C6_Witness ==
    /\ MainRun /\ mpc = "end"
    /\ argv = <<"verify_fix.py", "--headed">>
    /\ environ = {"CI"}
    /\ files = {"dist/index.html"}
    /\ trace = <<1, 2, 4, 34, 39>>

\* C7: the calls of run() are issued in the fixed order, one at a time and
\* only when no call is in flight; at most one browser and one page are
\* open; the viewport is set to 1280x800, the browser is headless, and no
\* call is given a timeout; the print follows the four calls.
C7_Sequential ==
    /\ [](/\ IsPrefix(Ops(calls), StepOrder)
          /\ Cardinality(inflight) <= 1
          /\ Cardinality(OpenBrowsers) <= 1
          /\ Cardinality(OpenPages) <= 1
          /\ \A i \in 1..Len(calls) : "timeout" \notin DOMAIN calls[i].kwargs
          /\ (Len(calls) >= 1 => calls[1].kwargs.headless)
          /\ (Len(calls) >= 3 =>
                calls[3].kwargs.viewport_size = [width |-> 1280, height |-> 800])
          /\ (Count(RunOutput, NavMsg) > 0 =>
                /\ Len(calls) = 4 /\ inflight = {}
                /\ \E pg \in pages : /\ pg.id = page
                                     /\ pg.viewport = <<1280, 800>>
                                     /\ pg.initScripts = <<MockScript>>))
    /\ [][(calls' # calls /\ runs' = runs) => inflight = {}]_vars

C7_Witness ==
    /\ rpc = "returned" /\ runs = 2
    /\ Cardinality(browsers) = 2 /\ Cardinality(pages) = 2
    /\ OpenBrowsers = {}

\* C8: the init script is never evaluated in any document: no page ever has
\* a local-storage key set.
C8_InitScriptNeverRuns ==
    \A pg \in pages : pg.evaluations = 0 /\ DOMAIN pg.storage = {}

C8_Witness ==
    \E pg \in pages :
        /\ ~pg.open
        /\ pg.initScripts = <<MockScript>>
        /\ pg.evaluations = 0
        /\ rpc = "returned"

\* C9: an invocation of run() whose library calls all complete ends, and
\* when it returns it has issued exactly four calls and printed one line.
C9_RunTerminates ==
    /\ ((rpc = "enter") ~> (rpc \in {"returned", "raised"}))
    /\ [](rpc = "returned" =>
            /\ Len(calls) = 4
            /\ RunOutput = <<NavMsg>>
            /\ inflight = {}
            /\ exc = "none")

C9_Witness ==
    rpc = "returned" /\ runs = 1 /\ Ops(calls) = StepOrder /\ RunOutput = <<NavMsg>>

====
